---- MODULE Spec2Model ----
(***************************************************************************)
(* Model of file_scanner.py: the directory scanner (insert_file_info), its *)
(* scheduler (monitor_directory), the search engine (search_for_term) and  *)
(* the MySQL connection they share (InnoDB tables, autocommit off).        *)
(*                                                                         *)
(* Strings are sequences of one-character strings, so that lower/upper     *)
(* casing, substring tests, str.count and os.path.splitext are computed    *)
(* character by character as Python computes them.                         *)
(***************************************************************************)
EXTENDS Integers, Sequences, FiniteSets, TLC

(***************************************************************************)
(* Bounds of the model.                                                    *)
(***************************************************************************)
MaxPasses == 2      \* scan passes the scheduler starts
MaxSearches == 2    \* search calls made from the options menu
MaxFsChanges == 1   \* changes other programs make to the watched tree

(***************************************************************************)
(* Strings.                                                                *)
(***************************************************************************)
\* str.lower() on the characters the model uses
LowerChar(c) ==
    CASE c = "A" -> "a"
      [] c = "B" -> "b"
      [] c = "U" -> "u"
      [] OTHER -> c

\* str.upper() on the characters the model uses
UpperChar(c) ==
    CASE c = "a" -> "A"
      [] c = "b" -> "B"
      [] OTHER -> c

Lower(s) == [i \in 1..Len(s) |-> LowerChar(s[i])]

Upper(s) == [i \in 1..Len(s) |-> UpperChar(s[i])]

\* t occurs in s starting at position i
HasAt(s, t, i) ==
    /\ i >= 1
    /\ i + Len(t) - 1 <= Len(s)
    /\ \A j \in 1..Len(t) : s[i + j - 1] = t[j]

\* Python's "t in s"
Contains(s, t) == \E i \in 1..(Len(s) + 1) : HasAt(s, t, i)

\* A counting scan that moves one character on after a match (overlapping
\* windows); str.count does not do this.
RECURSIVE CountOverlapping(_, _, _)
CountOverlapping(s, t, i) ==
    IF Len(t) = 0 THEN Len(s) + 1
    ELSE IF i + Len(t) - 1 > Len(s) THEN 0
    ELSE IF HasAt(s, t, i) THEN 1 + CountOverlapping(s, t, i + 1)
    ELSE CountOverlapping(s, t, i + 1)

\* Python's s.count(t) from position i: left to right, and after a match the
\* scan resumes behind the match; the empty string is counted len(s)+1 times
RECURSIVE CountFrom(_, _, _)
CountFrom(s, t, i) ==
    IF Len(t) = 0 THEN Len(s) + 1
    ELSE IF i + Len(t) - 1 > Len(s) THEN 0
    ELSE IF HasAt(s, t, i) THEN 1 + CountFrom(s, t, i + Len(t))
    ELSE CountFrom(s, t, i + 1)

Sep == "/"
ExtSep == "."

\* last index of character c in s, 0 when absent (str.rfind, 1-based)
RFind(s, c) ==
    LET hits == {i \in 1..Len(s) : s[i] = c}
    IN  IF hits = {} THEN 0 ELSE CHOOSE i \in hits : \A j \in hits : j <= i

\* os.path.splitext(p)[1]: the text from the last dot on, if that dot lies
\* behind the last separator and some character between them is not a dot
SplitExt(p) ==
    LET sepIndex == RFind(p, Sep)
        dotIndex == RFind(p, ExtSep)
    IN  IF /\ dotIndex > sepIndex
           /\ \E k \in (sepIndex + 1)..(dotIndex - 1) : p[k] # ExtSep
        THEN SubSeq(p, dotIndex, Len(p))
        ELSE << >>

\* os.path.join(root, file)
Join(root, file) == root \o <<Sep>> \o file

\* os.path.basename(file)
Basename(p) == SubSeq(p, RFind(p, Sep) + 1, Len(p))

Directory == <<"D", "i", "r", "e", "c", "t", "o", "r", "y">>
Unknown == <<"U", "n", "k", "n", "o", "w", "n">>
Unreadable == <<"U", "n", "r", "e", "a", "d", "a", "b", "l", "e">>

(***************************************************************************)
(* The watched tree.  An entry of the tree is a directory and a name in    *)
(* it; what is on disk at an entry changes under the program's feet.       *)
(***************************************************************************)
Root == <<"r">>

\* the directories os.walk visits, top down
WalkDirs == << Root, Root \o <<Sep, "d">> >>

\* the names a directory can hold, in the order its listing gives them
NamesIn(root) ==
    IF root = Root THEN << <<"A", ".", "b">> >> ELSE << <<"B">> >>

Range(q) == {q[i] : i \in 1..Len(q)}

\* full paths of the entries of the tree
Tree == UNION { {Join(root, file) : file \in Range(NamesIn(root))} :
                root \in Range(WalkDirs) }

Contents == { <<"A", "a", "a">>, <<"b", "a">> }

\* What can be at an entry: nothing, a directory, a symbolic link whose
\* target is missing, a file that is not UTF-8 text, or a text file.
DiskStates ==
    { [kind |-> k, content |-> << >>] :
        k \in {"absent", "dir", "dangling", "binary"} }
    \cup { [kind |-> "text", content |-> c] : c \in Contents }

BinarySize == 4

\* A file in a directory the program may not read: the listing os.walk asks
\* for fails and os.walk ignores the error (onerror is None), so the walk
\* goes on as if the directory were empty; stat and open fail as well.
Unlisted == [kind |-> "unlisted", content |-> << >>]

\* What can be at path p.  Only entries below the top directory can be
\* unlisted: when the top directory cannot be read the walk sees nothing.
DiskStatesAt(p) ==
    IF p \in {Join(Root, file) : file \in Range(NamesIn(Root))}
    THEN DiskStates
    ELSE DiskStates \cup {Unlisted}

\* The tree once the monitor has stopped: nothing reads it any more, and the
\* model stops tracking what others do to it.
Untracked == [p \in Tree |-> [kind |-> "untracked", content |-> << >>]]

\* os.path.isdir
IsDir(d) == d.kind = "dir"

\* os.walk puts an entry among `files` when it exists and is no directory
ListedAsFile(d) == d.kind \in {"dangling", "binary", "text"}

\* os.path.getsize raises OSError for a missing file or a dangling link
CanStat(d) == d.kind \in {"dir", "binary", "text"}

GetSize(d) ==
    CASE d.kind = "text" -> Len(d.content)
      [] d.kind = "binary" -> BinarySize
      [] OTHER -> 0

\* get_file_type
get_file_type(d, file_path) ==
    IF IsDir(d) THEN Directory
    ELSE LET file_extension == SplitExt(file_path)
         IN  IF file_extension # << >>
             THEN Upper(SubSeq(file_extension, 2, Len(file_extension)))
             ELSE Unknown

\* get_file_content
get_file_content(d) ==
    IF IsDir(d) THEN << >>
    ELSE IF d.kind = "text" THEN d.content
    ELSE Unreadable

(***************************************************************************)
(* The store: the committed tables and the connection's open transaction.  *)
(***************************************************************************)
RSNames == {"search_results_user", "rs1"}

NoRows == [rs \in RSNames |-> << >>]

\* the store right after setup_database
EmptyDb ==
    [ files_info |-> << >>,
      results |-> NoRows,
      tables |-> {"search_results_user"},
      txFiles |-> << >>,
      txRows |-> NoRows ]

\* the rows of files_info the connection's SELECT sees: committed and its own
Visible(db) == db.files_info \o db.txFiles

PathsOf(rows) == {rows[i].full_path : i \in 1..Len(rows)}

\* a file_exists that never finds the path
FileExistsNever(db, file_path) == FALSE

\* a file_exists that does not see the rows of earlier passes
FileExistsOwnOnly(db, file_path) == file_path \in PathsOf(db.txFiles)

\* file_exists: SELECT COUNT(*) FROM files_info WHERE full_path = %s
file_exists(db, file_path) == file_path \in PathsOf(Visible(db))

\* full_path VARCHAR(255) UNIQUE
UniqueViolation(db, file_path) == file_path \in PathsOf(Visible(db))

\* INSERT INTO files_info ... inside the open transaction
InsertFile(db, rec) == [db EXCEPT !.txFiles = Append(@, rec)]

\* INSERT INTO <table_name> ... inside the open transaction
InsertRows(db, rs, rows) == [db EXCEPT !.txRows[rs] = @ \o rows]

\* connection.commit(), and the commit MySQL makes before each DDL statement
Commit(db) ==
    [db EXCEPT !.files_info = @ \o db.txFiles,
               !.results = [rs \in RSNames |-> @[rs] \o db.txRows[rs]],
               !.txFiles = << >>,
               !.txRows = NoRows]

\* a rollback that also drops what earlier transactions committed
RollbackAll(db) ==
    [db EXCEPT !.files_info = << >>, !.txFiles = << >>, !.txRows = NoRows]

\* connection.rollback(); the server does the same when the connection ends
Rollback(db) == [db EXCEPT !.txFiles = << >>, !.txRows = NoRows]

\* CREATE TABLE IF NOT EXISTS <table_name>: DDL, commits the open transaction
create_search_table(db, rs) ==
    [Commit(db) EXCEPT !.tables = @ \cup {rs}]

\* a search that forgets to empty the table
TruncateNot(db, rs) == Commit(db)

\* TRUNCATE TABLE <table_name>: DDL, commits the open transaction, then
\* empties the table for good
Truncate(db, rs) == [Commit(db) EXCEPT !.results[rs] = << >>]

\* a count over overlapping windows
CountOverlap(s, t) == CountOverlapping(s, t, 1)

\* s.count(t)
Count(s, t) == CountFrom(s, t, 1)

Row(f, occurrences) ==
    [ file_name |-> f.file_name, full_path |-> f.full_path,
      occurrences |-> occurrences, file_type |-> f.file_type ]

\* the loop of search_for_term over the fetched rows: the rows it inserts
RECURSIVE SearchRows(_, _, _)
SearchRows(search_term, files, i) ==
    IF i > Len(files) THEN << >>
    ELSE LET file == files[i]
             occurrences == Count(Lower(file.content), Lower(search_term))
             here ==
               IF Contains(Lower(file.file_name), Lower(search_term))
               THEN << Row(file, IF occurrences = 0 THEN 0 ELSE occurrences) >>
               ELSE IF occurrences > 0
               THEN << Row(file, occurrences) >>
               ELSE << >>
         IN  here \o SearchRows(search_term, files, i + 1)

Terms == { << >>, <<"a">>, <<"A", "a">> }

(***************************************************************************)
(* State.                                                                  *)
(***************************************************************************)
VARIABLES
    disk,         \* what is at each entry of the tree
    db,           \* the store and the connection's open transaction
    connUp,       \* the connection to the server is alive
    pc,           \* where the program is
    dirsLeft,     \* directories os.walk has still to list
    root,         \* the directory whose files are being handled
    todo,         \* names of `files` the inner loop has still to handle
    cur,          \* the record the loop body is building
    passes,       \* scan passes started (counted while the monitor runs)
    searches,     \* search calls made
    fsChanges,    \* changes made to the tree (counted while the monitor runs)
    passBase,     \* history: committed files_info when the latest pass began
    insertFailed, \* history: an INSERT of the latest pass raised
    abandoned,    \* history: rows staged and uncommitted when Ctrl+C came
    monitorExit,  \* history: how monitor_directory was left
    treeSame,     \* history: tree unchanged since the latest pass began
    prevEnd,      \* history: how the pass before the latest one ended,
                  \*   "changed" if the tree changed since that pass began
    lastSearch    \* history: the latest search call

vars ==
    << disk, db, connUp, pc, dirsLeft, root, todo, cur, passes, searches,
       fsChanges, passBase, insertFailed, abandoned, monitorExit, treeSame,
       prevEnd, lastSearch >>

scanVars == << dirsLeft, root, todo, cur >>
histScan == << passBase, insertFailed, treeSame, prevEnd >>

NoCur ==
    [ file_name |-> << >>, full_path |-> << >>, file_extension |-> << >>,
      file_size |-> 0, file_type |-> << >>, content |-> << >> ]

NoSearch ==
    [ term |-> << >>, rs |-> "search_results_user", outcome |-> "none",
      hadRows |-> FALSE ]

\* positions inside monitor_directory's loop
PassPcs ==
    {"walk", "exists", "getsize", "gettype", "getcontent", "insert",
     "commit", "handler"}
BuildPcs == {"getsize", "gettype", "getcontent", "insert"}
MonitorPcs == PassPcs \cup {"call", "sleep"}

Init ==
    /\ disk \in {f \in [Tree -> DiskStates \cup {Unlisted}] :
                 \A p \in Tree : f[p] \in DiskStatesAt(p)}
    /\ db = EmptyDb
    /\ connUp = TRUE
    /\ pc = "call"
    /\ dirsLeft = << >>
    /\ root = Root
    /\ todo = << >>
    /\ cur = NoCur
    /\ passes = 0
    /\ searches = 0
    /\ fsChanges = 0
    /\ passBase = << >>
    /\ insertFailed = FALSE
    /\ abandoned = << >>
    /\ monitorExit = "running"
    /\ treeSame = TRUE
    /\ prevEnd = "none"
    /\ lastSearch = NoSearch

(***************************************************************************)
(* insert_file_info, statement by statement.                               *)
(***************************************************************************)
\* how the pass that is ending now is remembered by the next one
EndOfPass(how) == IF treeSame THEN how ELSE "changed"

\* lines 146, 64-66: the call and USE
BeginPass ==
    /\ pc = "call"
    /\ passes' = passes + 1
    /\ passBase' = db.files_info
    /\ insertFailed' = FALSE
    /\ treeSame' = TRUE
    /\ dirsLeft' = WalkDirs
    /\ root' = Root
    /\ todo' = << >>
    /\ cur' = NoCur
    /\ pc' = IF connUp THEN "walk" ELSE "handler"
    /\ UNCHANGED << disk, db, connUp, searches, fsChanges, abandoned,
                    monitorExit, prevEnd, lastSearch >>

\* where the inner loop goes when `left` is what remains of `files`
NextEntry(left) == IF left = << >> THEN "walk" ELSE "exists"

\* line 67: os.walk lists the next directory, or is exhausted
WalkNext ==
    /\ pc = "walk"
    /\ IF dirsLeft = << >>
       THEN /\ pc' = "commit"
            /\ UNCHANGED << dirsLeft, root, todo >>
       ELSE /\ root' = Head(dirsLeft)
            /\ dirsLeft' = Tail(dirsLeft)
            /\ todo' = SelectSeq(NamesIn(Head(dirsLeft)),
                           LAMBDA f : ListedAsFile(disk[Join(Head(dirsLeft), f)]))
            /\ pc' = NextEntry(todo')
    /\ UNCHANGED << disk, db, connUp, cur, passes, searches, fsChanges,
                    abandoned, monitorExit, lastSearch >>
    /\ UNCHANGED histScan

\* lines 68-71: the path of the next file and the existence check
FileExistsStep ==
    /\ pc = "exists"
    /\ LET file_path == Join(root, Head(todo))
       IN  IF ~connUp
           THEN /\ pc' = "handler"
                /\ UNCHANGED << todo, cur >>
           ELSE IF file_exists(db, file_path)
           THEN /\ todo' = Tail(todo)
                /\ pc' = NextEntry(todo')
                /\ UNCHANGED cur
           ELSE /\ cur' = [NoCur EXCEPT !.full_path = file_path]
                /\ pc' = "getsize"
                /\ UNCHANGED todo
    /\ UNCHANGED << disk, db, connUp, dirsLeft, root, passes, searches,
                    fsChanges, abandoned, monitorExit, lastSearch >>
    /\ UNCHANGED histScan

\* lines 72-74: name, extension and size; os.path.getsize raises OSError,
\* which nothing catches: the finally of the main block closes the connection
GetSizeStep ==
    /\ pc = "getsize"
    /\ IF CanStat(disk[cur.full_path])
       THEN /\ cur' = [cur EXCEPT !.file_name = Basename(Head(todo)),
                                  !.file_extension = SplitExt(Head(todo)),
                                  !.file_size = GetSize(disk[cur.full_path])]
            /\ pc' = "gettype"
            /\ UNCHANGED << db, monitorExit >>
       ELSE /\ pc' = "done"
            /\ monitorExit' = "os_error"
            /\ db' = Rollback(db)
            /\ UNCHANGED cur
    /\ UNCHANGED << disk, connUp, dirsLeft, root, todo, passes, searches,
                    fsChanges, abandoned, lastSearch >>
    /\ UNCHANGED histScan

\* line 75
GetTypeStep ==
    /\ pc = "gettype"
    /\ cur' = [cur EXCEPT
                 !.file_type = get_file_type(disk[cur.full_path], cur.full_path)]
    /\ pc' = "getcontent"
    /\ UNCHANGED << disk, db, connUp, dirsLeft, root, todo, passes, searches,
                    fsChanges, abandoned, monitorExit, lastSearch >>
    /\ UNCHANGED histScan

\* line 76
GetContentStep ==
    /\ pc = "getcontent"
    /\ cur' = [cur EXCEPT !.content = get_file_content(disk[cur.full_path])]
    /\ pc' = "insert"
    /\ UNCHANGED << disk, db, connUp, dirsLeft, root, todo, passes, searches,
                    fsChanges, abandoned, monitorExit, lastSearch >>
    /\ UNCHANGED histScan

\* lines 77-80: the INSERT; it raises when the connection is gone, when the
\* path is already there, or for a reason of the server's (fault)
InsertStep ==
    /\ pc = "insert"
    /\ \E fault \in BOOLEAN :
         IF ~connUp \/ fault \/ UniqueViolation(db, cur.full_path)
         THEN /\ pc' = "handler"
              /\ insertFailed' = TRUE
              /\ UNCHANGED << db, todo >>
         ELSE /\ db' = InsertFile(db, cur)
              /\ todo' = Tail(todo)
              /\ pc' = NextEntry(todo')
              /\ UNCHANGED insertFailed
    /\ UNCHANGED << disk, connUp, dirsLeft, root, cur, passes, searches,
                    fsChanges, abandoned, monitorExit, lastSearch,
                    passBase, treeSame, prevEnd >>

\* line 81
CommitStep ==
    /\ pc = "commit"
    /\ IF connUp
       THEN /\ db' = Commit(db)
            /\ pc' = "sleep"
            /\ prevEnd' = EndOfPass("committed")
       ELSE /\ pc' = "handler"
            /\ UNCHANGED << db, prevEnd >>
    /\ UNCHANGED << disk, connUp, passes, searches, fsChanges, abandoned,
                    monitorExit, lastSearch, passBase, insertFailed, treeSame >>
    /\ UNCHANGED scanVars

\* lines 82-84: the handler; rollback itself raises when the connection is
\* gone, and that error leaves monitor_directory and ends the program
HandlerStep ==
    /\ pc = "handler"
    /\ IF connUp
       THEN /\ db' = Rollback(db)
            /\ pc' = "sleep"
            /\ prevEnd' = EndOfPass("rolledback")
            /\ UNCHANGED monitorExit
       ELSE /\ pc' = "done"
            /\ monitorExit' = "mysql_error"
            /\ db' = Rollback(db)
            /\ UNCHANGED prevEnd
    /\ UNCHANGED << disk, connUp, passes, searches, fsChanges, abandoned,
                    lastSearch, passBase, insertFailed, treeSame >>
    /\ UNCHANGED scanVars

(***************************************************************************)
(* monitor_directory.                                                      *)
(***************************************************************************)
\* line 148: the sleep ends and the loop calls the scanner again
Wake ==
    /\ pc = "sleep"
    /\ passes < MaxPasses
    /\ pc' = "call"
    /\ UNCHANGED << disk, db, connUp, passes, searches, fsChanges, abandoned,
                    monitorExit, lastSearch >>
    /\ UNCHANGED scanVars
    /\ UNCHANGED histScan

\* lines 149-151: Ctrl+C, wherever the loop is; nothing is committed or
\* rolled back on the way out, and the locals of insert_file_info are gone
Interrupt ==
    /\ pc \in MonitorPcs
    /\ pc' = "ui"
    /\ monitorExit' = "cancelled"
    /\ abandoned' = db.txFiles
    /\ dirsLeft' = << >>
    /\ root' = Root
    /\ todo' = << >>
    /\ cur' = NoCur
    /\ treeSame' = FALSE
    /\ prevEnd' = "none"
    /\ disk' = Untracked
    /\ passes' = 0
    /\ fsChanges' = 0
    /\ UNCHANGED << db, connUp, searches, lastSearch, passBase,
                    insertFailed >>

(***************************************************************************)
(* The environment.                                                        *)
(***************************************************************************)
\* the server or the network goes away; the server rolls back what was open
\* and the program never reconnects
ConnLost ==
    /\ connUp
    /\ pc \in MonitorPcs
    /\ connUp' = FALSE
    /\ db' = Rollback(db)
    /\ UNCHANGED << disk, pc, passes, searches, fsChanges, abandoned,
                    monitorExit, lastSearch >>
    /\ UNCHANGED scanVars
    /\ UNCHANGED histScan

\* another program changes what is at an entry (the disk is not read once
\* the monitor has stopped)
FsChange ==
    /\ pc \in MonitorPcs
    /\ fsChanges < MaxFsChanges
    /\ \E p \in Tree, d \in DiskStates \cup {Unlisted} :
         /\ d \in DiskStatesAt(p)
         /\ d # disk[p]
         /\ disk' = [disk EXCEPT ![p] = d]
    /\ fsChanges' = fsChanges + 1
    /\ treeSame' = FALSE
    /\ prevEnd' = IF prevEnd = "none" THEN "none" ELSE "changed"
    /\ UNCHANGED << db, connUp, pc, passes, searches, abandoned, monitorExit,
                    lastSearch, passBase, insertFailed >>
    /\ UNCHANGED scanVars

(***************************************************************************)
(* search_for_term, called from the options menu.                          *)
(***************************************************************************)
\* a display that has no line of its own for an empty result
ShownAlwaysRows(rows) == "rows"

\* what lines 129-136 show
Shown(rows) == IF rows = << >> THEN "no_matches" ELSE "rows"

\* One call.  fault says where the call stops:
\*   "none"      nowhere;
\*   "create"    the connection goes after CREATE TABLE;
\*   "truncate"  the connection goes after TRUNCATE;
\*   "insert"    the k-th INSERT raises (line 137 catches it; the rows
\*               inserted before stay in the open transaction).
search_for_term(search_term, table_name, fault, k) ==
    LET d1 == create_search_table(db, table_name)
        d2 == Truncate(d1, table_name)
        files == Visible(d2)
        rows == SearchRows(search_term, files, 1)
        seen == [ term |-> search_term, rs |-> table_name, outcome |-> "error",
                  hadRows |-> db.results[table_name] # << >> ]
    IN  IF ~connUp
        THEN /\ lastSearch' = seen
             /\ UNCHANGED << db, connUp >>
        ELSE CASE fault = "none" ->
                    /\ db' = Commit(InsertRows(d2, table_name, rows))
                    /\ lastSearch' = [seen EXCEPT !.outcome = Shown(rows)]
                    /\ UNCHANGED connUp
               [] fault = "create" ->
                    /\ db' = Rollback(d1)
                    /\ connUp' = FALSE
                    /\ lastSearch' = seen
               [] fault = "truncate" ->
                    /\ db' = Rollback(d2)
                    /\ connUp' = FALSE
                    /\ lastSearch' = seen
               [] fault = "insert" ->
                    /\ k <= Len(rows)
                    /\ db' = InsertRows(d2, table_name, SubSeq(rows, 1, k - 1))
                    /\ lastSearch' = seen
                    /\ UNCHANGED connUp

Faults == {"none", "create", "truncate", "insert"}

\* a menu that does not wait for monitor_directory to return
SearchAnytime ==
    /\ pc \in MonitorPcs \cup {"ui"}
    /\ searches < MaxSearches
    /\ searches' = searches + 1
    /\ \E search_term \in Terms, fault \in Faults, k \in 1..Cardinality(Tree) :
         /\ (fault # "insert") => k = 1
         /\ search_for_term(search_term, "search_results_user", fault, k)
    /\ UNCHANGED << disk, pc, passes, fsChanges, abandoned, monitorExit >>
    /\ UNCHANGED scanVars
    /\ UNCHANGED histScan

\* lines 161-163: choice 1; the menu always names search_results_user
Search ==
    /\ pc = "ui"
    /\ searches < MaxSearches
    /\ searches' = searches + 1
    /\ \E search_term \in Terms, fault \in Faults, k \in 1..Cardinality(Tree) :
         /\ (fault # "insert") => k = 1
         /\ search_for_term(search_term, "search_results_user", fault, k)
    /\ UNCHANGED << disk, pc, passes, fsChanges, abandoned, monitorExit >>
    /\ UNCHANGED scanVars
    /\ UNCHANGED histScan

\* lines 164-165, 193-195: choice 2; closing the connection drops what is
\* uncommitted
Exit ==
    /\ pc = "ui"
    /\ pc' = "done"
    /\ db' = Rollback(db)
    /\ UNCHANGED << disk, connUp, passes, searches, fsChanges, abandoned,
                    monitorExit, lastSearch >>
    /\ UNCHANGED scanVars
    /\ UNCHANGED histScan

Next ==
    \/ BeginPass
    \/ WalkNext
    \/ FileExistsStep
    \/ GetSizeStep
    \/ GetTypeStep
    \/ GetContentStep
    \/ InsertStep
    \/ CommitStep
    \/ HandlerStep
    \/ Wake
    \/ Interrupt
    \/ ConnLost
    \/ FsChange
    \/ Search
    \/ Exit

Spec == Init /\ [][Next]_vars

(***************************************************************************)
(* search_for_term as a library function: called with any term and any     *)
(* result-set name on a connection the monitor has left behind, with part  *)
(* of the catalog committed and the rest still staged by the pass that     *)
(* Ctrl+C cut short.                                                       *)
(***************************************************************************)
\* the record one run of the loop body builds for a file that is d on disk
FileRecord(dir, file, d) ==
    [ file_name |-> Basename(file),
      full_path |-> Join(dir, file),
      file_extension |-> SplitExt(file),
      file_size |-> GetSize(d),
      file_type |-> get_file_type(d, Join(dir, file)),
      content |-> get_file_content(d) ]

\* files a pass reads without a race
Readable == {d \in DiskStates : d.kind \in {"binary", "text"}}

\* catalogs of one record per path; rows staged by the same pass are in
\* walk order
Catalogs ==
    LET top == [ d \in Readable |-> FileRecord(WalkDirs[1], NamesIn(WalkDirs[1])[1], d) ]
        sub == [ d \in Readable |-> FileRecord(WalkDirs[2], NamesIn(WalkDirs[2])[1], d) ]
    IN  { << >> }
        \cup { <<top[d]>> : d \in Readable }
        \cup { <<sub[d]>> : d \in Readable }
        \cup { <<top[d], sub[e]>> : d \in Readable, e \in Readable }

ApiInit ==
    /\ \E c \in Catalogs, k \in 0..Cardinality(Tree) :
         /\ k <= Len(c)
         /\ db = [EmptyDb EXCEPT !.files_info = SubSeq(c, 1, k),
                                 !.txFiles = SubSeq(c, k + 1, Len(c))]
         /\ passBase = SubSeq(c, 1, k)
         /\ abandoned = SubSeq(c, k + 1, Len(c))
    /\ disk = Untracked
    /\ connUp = TRUE
    /\ pc = "ui"
    /\ dirsLeft = << >>
    /\ root = Root
    /\ todo = << >>
    /\ cur = NoCur
    /\ passes = 0
    /\ searches = 0
    /\ fsChanges = 0
    /\ insertFailed = FALSE
    /\ monitorExit = "cancelled"
    /\ treeSame = FALSE
    /\ prevEnd = "none"
    /\ lastSearch = NoSearch

SearchCall ==
    /\ pc = "ui"
    /\ searches < MaxSearches
    /\ searches' = searches + 1
    /\ \E search_term \in Terms, table_name \in RSNames, fault \in Faults,
          k \in 1..Cardinality(Tree) :
         /\ (fault # "insert") => k = 1
         /\ search_for_term(search_term, table_name, fault, k)
    /\ UNCHANGED << disk, pc, passes, fsChanges, abandoned, monitorExit >>
    /\ UNCHANGED scanVars
    /\ UNCHANGED histScan

ApiNext == SearchCall \/ Exit

ApiSpec == ApiInit /\ [][ApiNext]_vars

(***************************************************************************)
(* get_file_type on names of every shape: the loop body of insert_file_info *)
(* stands at line 75 with a file of the top directory whose name os.walk   *)
(* has listed, and whatever is at that path on disk by now.                *)
(***************************************************************************)
MaxNameLen == 3

NameChars == {"a", "B", ExtSep}

\* names a listing can hold: not empty, and neither "." nor ".."
FileNames ==
    UNION { [1..n -> NameChars] : n \in 1..MaxNameLen }
      \ { <<ExtSep>>, <<ExtSep, ExtSep>> }

\* the locals after lines 68-74: the file was s when its size was taken and
\* is d now
ClassifyInit ==
    /\ \E file \in FileNames, d \in DiskStates, s \in DiskStates :
         /\ CanStat(s)
         /\ disk = [p \in {Join(Root, file)} |-> d]
         /\ todo = <<file>>
         /\ cur = [NoCur EXCEPT !.full_path = Join(Root, file),
                                !.file_name = Basename(file),
                                !.file_extension = SplitExt(file),
                                !.file_size = GetSize(s)]
    /\ db = EmptyDb
    /\ connUp = TRUE
    /\ pc = "gettype"
    /\ dirsLeft = Tail(WalkDirs)
    /\ root = Root
    /\ passes = 1
    /\ searches = 0
    /\ fsChanges = 0
    /\ passBase = << >>
    /\ insertFailed = FALSE
    /\ abandoned = << >>
    /\ monitorExit = "running"
    /\ treeSame = FALSE
    /\ prevEnd = "none"
    /\ lastSearch = NoSearch

ClassifyNext == GetTypeStep

ClassifySpec == ClassifyInit /\ [][ClassifyNext]_vars

(***************************************************************************)
(* Properties.                                                             *)
(***************************************************************************)
Committed == db.files_info

RowPaths(rows) == {rows[i].full_path : i \in 1..Len(rows)}

\* C1: transactional atomicity of a scan pass: once an INSERT of a pass has
\* failed, the committed catalog is, from then on, what it was when the pass
\* began (none of the rows the pass staged is in it).
C1_FailedPassLeavesNothing == insertFailed => Committed = passBase

\* C2: cancellation never exposes a partial pass: the rows a pass had staged
\* and not committed when Ctrl+C came are never in the committed catalog,
\* whatever is done on the connection afterwards.
C2_AbandonedRowsNeverCommitted ==
    \A i \in 1..Len(abandoned) : abandoned[i] \notin Range(Committed)

\* a pass is under way, the pass before it ended as `how`, and the tree has
\* not changed since that earlier pass began
SecondPassAfter(how) == pc \in PassPcs /\ prevEnd \in how

\* the pass under way has inserted nothing and is not building a record
NothingNew == db.txFiles = << >> /\ pc \notin BuildPcs /\ Committed = passBase

\* C3 as claimed: idempotent scanning: a pass over a tree unchanged since the
\* pass before it began inserts no record and leaves the catalog as it was,
\* however that earlier pass ended.
C3_SecondPassAlwaysNoOp ==
    SecondPassAfter({"committed", "rolledback"}) => NothingNew

\* C3 as amended: idempotent scanning after a pass that committed: a pass
\* over a tree unchanged since the pass before it began, that earlier pass
\* having reached its commit, never gets past the existence check, inserts
\* no record and leaves the catalog as it was.
C3_SecondPassAfterCommitNoOp == SecondPassAfter({"committed"}) => NothingNew

\* C3 witness: the second pass has walked an unchanged tree of two cataloged
\* files and stands before its commit
C3_Witness ==
    /\ pc = "commit"
    /\ prevEnd = "committed"
    /\ Len(Committed) = 2
    /\ \A p \in Tree : ListedAsFile(disk[p])

\* no two rows of files_info, committed or staged, have the same full_path
OnePerPath ==
    \A i, j \in 1..Len(Visible(db)) :
        Visible(db)[i].full_path = Visible(db)[j].full_path => i = j

\* the scanner builds and inserts a record only for a path not yet there
NoSecondInsert == pc \in BuildPcs => cur.full_path \notin PathsOf(Visible(db))

\* a step keeps every committed row as it is
RowsKept ==
    /\ Len(Committed) <= Len(Committed')
    /\ \A i \in 1..Len(Committed) : Committed'[i] = Committed[i]

\* C4: dedup correctness: at most one record per fullPath at all times, the
\* scanner never sets out to insert a path that has a record, and no step
\* changes a committed record (its size, type, content), also when the file
\* has changed on disk.
C4_Dedup == [](OnePerPath /\ NoSecondInsert) /\ [][RowsKept]_vars

\* C4 witness: a later pass has walked the tree and skipped a cataloged file
\* whose text on disk now differs from the cataloged content
C4_Witness ==
    /\ pc = "commit"
    /\ passes = 2
    /\ treeSame
    /\ db.txFiles = << >>
    /\ \E i \in 1..Len(Committed) :
         LET p == Committed[i].full_path
         IN  /\ disk[p].kind = "text"
             /\ disk[p].content # Committed[i].content

\* C5: monotonic catalog: no step of the program (pass, rollback, search)
\* removes a fullPath from the committed catalog.
C5_Monotonic == [][PathsOf(Committed) \subseteq PathsOf(Committed')]_vars

\* C5 witness: after a second pass the catalog still holds the record of a
\* file that is gone from disk
C5_Witness ==
    /\ pc = "sleep"
    /\ passes = 2
    /\ \E p \in PathsOf(Committed) : disk[p].kind = "absent"

\* the latest search call ran to its end (commit and read-back)
SearchDone == lastSearch.outcome \in {"rows", "no_matches"}

TheRows == db.results[lastSearch.rs]

\* t is a substring of s, both lowercased
InLower(s, t) ==
    \E i \in 1..(Len(s) + 1) :
        /\ i + Len(t) - 1 <= Len(s)
        /\ SubSeq(Lower(s), i, i + Len(t) - 1) = Lower(t)

\* C6: filename-match quirk: after a search, every cataloged record whose
\* fileName contains the term (case-insensitively) has a result row whose
\* occurrences is 0.
C6_NameMatchIsZero ==
    SearchDone =>
      \A i \in 1..Len(Committed) :
          InLower(Committed[i].file_name, lastSearch.term) =>
            \E j \in 1..Len(TheRows) :
                /\ TheRows[j].full_path = Committed[i].full_path
                /\ TheRows[j].occurrences = 0

\* C7: result-set replacement: after a search that ran to its end, the rows
\* of its result set are exactly the rows of that pass over the catalog,
\* whatever earlier searches left in the table.
C7_Replaced ==
    SearchDone => TheRows = SearchRows(lastSearch.term, Committed, 1)

\* C7 witness: a second search found nothing in a result set that held the
\* rows of an earlier search
C7_Witness ==
    /\ searches = 2
    /\ lastSearch.outcome = "no_matches"
    /\ lastSearch.hadRows
    /\ Committed # << >>

\* start positions of t in s
Starts(s, t) ==
    {i \in 1..Len(s) : /\ i + Len(t) - 1 <= Len(s)
                       /\ SubSeq(s, i, i + Len(t) - 1) = t}

\* the largest number of occurrences of t in s no two of which overlap
NonOverlapping(s, t) ==
    LET fits == {Q \in SUBSET Starts(s, t) :
                   \A a, b \in Q : a < b => b - a >= Len(t)}
    IN  CHOOSE n \in 0..Len(s) :
          /\ \E Q \in fits : Cardinality(Q) = n
          /\ \A Q \in fits : Cardinality(Q) <= n

\* C8: search row selection: after a search that ran to its end the result
\* set has at most one row per record, a record has a row exactly if the
\* term is in its fileName or in its content (case-insensitively), and the
\* row of a record matched by content only carries the number of
\* non-overlapping occurrences of the term in the content.
C8_RowSelection ==
    SearchDone =>
      LET t == lastSearch.term
      IN  /\ \A i, j \in 1..Len(TheRows) :
                TheRows[i].full_path = TheRows[j].full_path => i = j
          /\ RowPaths(TheRows) \subseteq PathsOf(Committed)
          /\ \A i \in 1..Len(Committed) :
                LET f == Committed[i]
                    byName == InLower(f.file_name, t)
                    byContent == InLower(f.content, t)
                IN  /\ (f.full_path \in RowPaths(TheRows)) <=> (byName \/ byContent)
                    /\ (byContent /\ ~byName) =>
                         \E j \in 1..Len(TheRows) :
                             /\ TheRows[j].full_path = f.full_path
                             /\ TheRows[j].occurrences =
                                  NonOverlapping(Lower(f.content), Lower(t))

\* C8 witness: a record matched by content only, where counting overlapping
\* windows would give 2
C8_Witness ==
    /\ SearchDone
    /\ lastSearch.term = <<"A", "a">>
    /\ \E j \in 1..Len(TheRows) :
         /\ TheRows[j].occurrences = 1
         /\ TheRows[j].file_name = <<"B">>
    /\ \E i \in 1..Len(Committed) :
         /\ Committed[i].file_name = <<"B">>
         /\ Committed[i].content = <<"A", "a", "a">>

\* C9: the scheduler survives pass failures: monitor_directory is left only
\* by the interrupt, never by an error that escaped a pass or its rollback.
C9_OnlyCancellationStopsMonitor == monitorExit \in {"running", "cancelled"}

\* C10: per-file failures never abort a pass: when the size of the file in
\* hand cannot be obtained, the pass goes on with that file (to stage it as
\* "Unreadable"); only Ctrl+C takes it elsewhere.
C10_UnstatableFileGoesOn ==
    [][ (pc = "getsize" /\ ~CanStat(disk[cur.full_path]) /\ pc' # pc)
          => pc' \in {"gettype", "ui"} ]_vars

\* the directories below the root: those os.walk descends into, and the
\* entries that are directories
DirsBelowRoot ==
    {WalkDirs[i] : i \in 2..Len(WalkDirs)} \cup {p \in Tree : IsDir(disk[p])}

\* the pass that has just ended reached its commit, and the tree has not
\* changed since that pass began
PassCommitted == pc = "sleep" /\ prevEnd = "committed"

\* C11: directories are cataloged as entries: after a pass that commits, the
\* catalog holds, for every directory below the root, a record with
\* fileType "Directory" and empty content.
C11_DirectoriesCataloged ==
    PassCommitted =>
      \A p \in DirsBelowRoot :
          \E i \in 1..Len(Committed) :
              /\ Committed[i].full_path = p
              /\ Committed[i].file_type = Directory
              /\ Committed[i].content = << >>

\* C12: cancellation lets a pass in flight finish: no step takes the program
\* out of a pass that has staged inserts other than through the pass's own
\* commit or rollback (which end in the wait); in particular Ctrl+C does not
\* lead to the menu from there.
C12_PassFinishesItsTransaction ==
    [][ (pc \in PassPcs /\ db.txFiles # << >> /\ pc' \notin PassPcs)
          => (pc \in {"commit", "handler"} /\ db'.txFiles = << >>) ]_vars

\* C13: phase ordering: a search call is made only at the menu, the menu is
\* reached only from the monitor loop and only by cancellation, nothing
\* leaves the menu for the loop again, and a scan pass starts only from the
\* loop while no search has yet been made; so no search runs during a pass
\* and no pass starts after the first search.
C13_PhaseOrdering ==
    /\ [](searches > 0 => (pc \in {"ui", "done"} /\ monitorExit = "cancelled"))
    /\ [][(searches' # searches) =>
             (pc = "ui" /\ pc' = "ui" /\ monitorExit = "cancelled")]_vars
    /\ [][(pc # "ui" /\ pc' = "ui") =>
             (pc \in MonitorPcs /\ monitorExit' = "cancelled")]_vars
    /\ [][(pc \in {"ui", "done"}) => (pc' \in {"ui", "done"})]_vars
    /\ [][(pc' \in PassPcs /\ pc \notin PassPcs) =>
             (pc = "call" /\ searches = 0)]_vars
    /\ [][(pc = "sleep") => (pc' \in {"sleep", "call", "ui"})]_vars

\* a search made at the menu after a pass that committed and a cancellation
C13_Witness ==
    /\ searches > 0
    /\ pc = "ui"
    /\ monitorExit = "cancelled"
    /\ passBase # Committed

\* the term is in the name or in the content of the record, as the search
\* compares them (both sides lowercased)
Matches(f, t) == InLower(f.file_name, t) \/ InLower(f.content, t)

NoRecordMatches(t) == \A i \in 1..Len(Committed) : ~Matches(Committed[i], t)

\* C14: no-match signalling: a search that ran to its end for a term that is
\* in no cataloged fileName and in no cataloged content leaves its result set
\* empty and ends with the "no matches" outcome; that outcome is given for no
\* other search, and a search stopped by a store error (the connection is
\* gone, or rows of it are left staged) ends with the error outcome instead.
C14_NoMatchSignal ==
    /\ (SearchDone /\ NoRecordMatches(lastSearch.term)) =>
          (lastSearch.outcome = "no_matches" /\ TheRows = << >>)
    /\ (lastSearch.outcome = "no_matches") =>
          (NoRecordMatches(lastSearch.term) /\ TheRows = << >>)
    /\ (~connUp \/ db.txRows # NoRows) => lastSearch.outcome = "error"

\* C14 witness: a first search over a catalog that is not empty, for a term
\* that is not empty, found nothing
C14_Witness ==
    /\ searches = 1
    /\ lastSearch.outcome = "no_matches"
    /\ lastSearch.term # << >>
    /\ Committed # << >>
    /\ TheRows = << >>

\* the record has been classified
Classified == pc = "getcontent"

\* the extension of the path: what follows the separator in os.path.splitext's
\* second part
ExtensionOf(p) == SubSeq(SplitExt(p), 2, Len(SplitExt(p)))

\* C15: classifier correctness: get_file_type gives "Directory" for a
\* directory, else the uppercased extension without the separator when the
\* path has one, else "Unknown"; it never gives the empty string.
C15_ClassifierCorrect ==
    Classified =>
      LET p == cur.full_path
      IN  /\ IsDir(disk[p]) => cur.file_type = Directory
          /\ (~IsDir(disk[p]) /\ ExtensionOf(p) # << >>) =>
                cur.file_type = Upper(ExtensionOf(p))
          /\ (~IsDir(disk[p]) /\ ExtensionOf(p) = << >>) =>
                cur.file_type = Unknown
          /\ cur.file_type # << >>

\* C16: atomic repopulation of a result set: the committed rows of every
\* result set are at all times either none or the complete rows of one
\* search pass over the catalog for that result set; rows a failed pass left
\* staged never show up among them.
C16_ResultSetAtomic ==
    \A rs \in RSNames :
        \/ db.results[rs] = << >>
        \/ \E t \in Terms : db.results[rs] = SearchRows(t, Committed, 1)

\* C17: one transaction per scan pass: whenever the program is not inside a
\* pass (insert_file_info has returned or has been left by an exception),
\* the connection holds no staged, uncommitted catalog insert.
C17_NoStagedInsertsOutsidePass ==
    pc \notin PassPcs => db.txFiles = << >>

\* a file is at the entry, whether or not the program can see it
IsFile(d) == d.kind \in {"binary", "text", "unlisted"}

\* C18: scan completeness for files: after a pass that reached its commit,
\* with the tree unchanged since the pass began, the committed catalog has a
\* record for every file under the root.
C18_ScanComplete ==
    PassCommitted => \A p \in Tree : IsFile(disk[p]) => p \in PathsOf(Committed)

\* C19: search leaves the catalog unchanged: over every search call, ended
\* or failed, the committed catalog records after the call are those before.
C19_SearchKeepsCatalog ==
    [][(searches' # searches) => (Committed' = Committed)]_vars

====
